---- MODULE Spec2Model ----
(***************************************************************************)
(* The recorder's retention/purge engine: the events, states and           *)
(* recorder_runs tables, the queue shared by the ingestion path and the    *)
(* purge tasks, the purge passes with their batching and old_state_id      *)
(* repair, purge-by-entities, and the retry/failure shell around every     *)
(* purge attempt.  Next to it, the motion_blinds integration: the set-up   *)
(* and unloading of its config entries around the shared multicast         *)
(* listener, and the update of its coordinator.                            *)
(***************************************************************************)
EXTENDS Integers, Sequences, FiniteSets, TLC

\* ------------------------------------------------------------------ bounds
MaxTime == 1          \* the clock runs over 0..MaxTime
MaxRows == 4          \* events the ingestion path may fire
MaxRuns == 3          \* closed recorder runs the fixtures may insert
MaxQueue == 2         \* items waiting in the recorder queue
MaxCalls == 2         \* purge / purge_entities service calls
MaxErrors == 1        \* storage errors raised inside purge attempts
MAX_ROWS_TO_PURGE == 2 \* the batch cap, scaled down
MaxSetups == 3        \* calls of async_setup_entry of motion_blinds
MaxUpdates == 2       \* polls of the motion_blinds coordinators

\* --------------------------------------------------------------- constants
NoId == 0             \* a null foreign key (row identifiers start at 1)
Open == 0 - 1         \* the unset end of the current run

EVENT_STATE_CHANGED == "state_changed"
EVENT_TEST == "EVENT_TEST"
EVENT_PURGE == "EVENT_PURGE"

\* The recorder's configured exclude filter.
ExcludeEntities == {<<"s", ".", "x">>}
ExcludeEventTypes == {EVENT_PURGE}

\* Entity identifiers are character sequences "<domain>.<object id>".
SensorExcluded == <<"s", ".", "x">>         \* sensor.excluded / sensor.purge_entity
PurgeDomainEntity == <<"d", ".", "e">>      \* purge_domain.entity
BinarySensorPurgeGlob == <<"b", ".", "g">>  \* binary_sensor.purge_glob
SensorKeep == <<"s", ".", "k">>             \* sensor.keep
Entities == {SensorExcluded, PurgeDomainEntity, BinarySensorPurgeGlob, SensorKeep}

\* The selectors the purge_entities service is called with.
EntityIdSelectors == {{}, {SensorExcluded}}
DomainSelectors == {{}, {<<"d">>}}
GlobSelectors == {{}, {<<"*", "g">>}}

Dialects == {"mysql", "sqlite"}
RETRYABLE_MYSQL_ERRORS == {1205, 1206, 1213}
ErrorCodes == {1205, 1}

\* motion_blinds: the keys of hass.data[DOMAIN] and of the coordinator data,
\* the two polling intervals, the config entries and the blinds of a gateway.
KEY_MULTICAST_LISTENER == "multicast_listener"
KEY_GATEWAY == "gateway"
UPDATE_INTERVAL == "UPDATE_INTERVAL"
UPDATE_INTERVAL_FAST == "UPDATE_INTERVAL_FAST"
EntryIds == {"entry1", "entry2"}
Blinds == {"mac1", "mac2"}

VARIABLES
    now,          \* the clock
    states,       \* the states table
    events,       \* the events table
    runs,         \* the recorder_runs table
    run_id,       \* instance.run_info.run_id, the current run
    old_states,   \* instance._old_states: entity -> its latest state id
    next_id,      \* the next row identifier of each table
    queue,        \* instance.queue
    dialect,      \* instance.engine.dialect.name
    log,          \* the messages logged so far
    sleeps,       \* calls of time.sleep(db_retry_wait)
    moved_away,   \* move_away_broken_database was called
    fired,        \* events fired by the ingestion path
    calls,        \* service calls made
    errors,       \* storage errors raised
    last,         \* the last operation of the worker on the store
    exclude_t,    \* the event types the configuration excludes
    motion        \* motion_blinds: hass.data[DOMAIN], listeners, entries

vars == <<now, states, events, runs, run_id, old_states, next_id, queue,
          dialect, log, sleeps, moved_away, fired, calls, errors, last,
          exclude_t, motion>>

\* ------------------------------------------------------------------ helpers
Min(a, b) == IF a < b THEN a ELSE b

Ids(rows) == {r.id : r \in rows}

\* Variant of Batches without the LIMIT: every candidate at once.
BatchesUncapped(cands, n) == {cands}

\* The subsets of cands a LIMIT n query may return.
Batches(cands, n) ==
    {B \in SUBSET cands : Cardinality(B) = Min(n, Cardinality(cands))}

\* ------------------------------------------------------------ entity filter
\* split_entity_id: the domain is what precedes the first ".".
RECURSIVE Domain(_)
Domain(entity_id) ==
    IF entity_id = <<>> \/ Head(entity_id) = "." THEN <<>>
    ELSE <<Head(entity_id)>> \o Domain(Tail(entity_id))

\* A glob matches the whole entity id; "*" stands for any run of characters
\* and "?" for one character.
RECURSIVE GlobMatch(_, _)
GlobMatch(pat, str) ==
    IF pat = <<>> THEN str = <<>>
    ELSE IF Head(pat) = "*"
         THEN GlobMatch(Tail(pat), str)
              \/ (str # <<>> /\ GlobMatch(pat, Tail(str)))
    ELSE /\ str # <<>>
         /\ (Head(pat) = "?" \/ Head(pat) = Head(str))
         /\ GlobMatch(Tail(pat), Tail(str))

\* Variants of SelectorMatch: one that reads the entity ids alone, and one
\* without the default for a call with no selector.
SelectorMatchIdsOnly(entity_ids, domains, entity_globs, entity_id) ==
    IF entity_ids = {} /\ domains = {} /\ entity_globs = {} THEN TRUE
    ELSE entity_id \in entity_ids

SelectorMatchUnion(entity_ids, domains, entity_globs, entity_id) ==
    \/ entity_id \in entity_ids
    \/ Domain(entity_id) \in domains
    \/ \E g \in entity_globs : GlobMatch(g, entity_id)

\* The filter of a purge_entities call: the union of the three selectors, and
\* every entity when all three are empty.
SelectorMatch(entity_ids, domains, entity_globs, entity_id) ==
    IF entity_ids = {} /\ domains = {} /\ entity_globs = {} THEN TRUE
    ELSE \/ entity_id \in entity_ids
         \/ Domain(entity_id) \in domains
         \/ \E g \in entity_globs : GlobMatch(g, entity_id)

\* instance.entity_filter, built from the configured exclude list.
EntityFilter(entity_id) == entity_id \notin ExcludeEntities

\* ------------------------------------------------------------------- tasks
PurgeTask(purge_before, repack, apply_filter) ==
    [kind |-> "purge", purge_before |-> purge_before, repack |-> repack,
     apply_filter |-> apply_filter]

PurgeEntitiesTask(entity_ids, domains, entity_globs) ==
    [kind |-> "purge_entities", entity_ids |-> entity_ids, domains |-> domains,
     entity_globs |-> entity_globs]

StateChangedItem(entity_id, time_fired) ==
    [kind |-> EVENT_STATE_CHANGED, entity_id |-> entity_id, time_fired |-> time_fired]

EventItem(event_type, time_fired) ==
    [kind |-> "event", event_type |-> event_type, time_fired |-> time_fired]

IsPurgeWork(item) == item.kind \in {"purge", "purge_entities"}

\* ------------------------------------------------------------ motion_blinds
\* A dict as a function: d[k] = v, d.pop(k), and the empty dict.
EmptyDict == [k \in {} |-> 0]

SetItem(d, k, v) == [x \in DOMAIN d \cup {k} |-> IF x = k THEN v ELSE d[x]]

Pop(d, k) == [x \in DOMAIN d \ {k} |-> d[x]]

\* An AsyncMotionMulticast object: how often it was started and stopped.
NewMulticast == [starts |-> 0, stops |-> 0]

\* The coordinator as its constructor leaves it.
NewCoordinator ==
    [update_interval |-> UPDATE_INTERVAL, data |-> EmptyDict, polled |-> EmptyDict,
     updated |-> FALSE, gateway_ok |-> TRUE, blind_ok |-> EmptyDict]

\* Nothing of motion_blinds is set up: hass.data[DOMAIN] is empty, no
\* listener object exists, no entry is loaded and no handler is running.
MotionInit ==
    [data |-> EmptyDict,
     multicast |-> <<>>,
     pc |-> [e \in EntryIds |-> "not_loaded"],
     local |-> [e \in EntryIds |-> 0],
     wait_for_push |-> [e \in EntryIds |-> FALSE],
     coordinator |-> [e \in EntryIds |-> NewCoordinator],
     raised |-> {},
     setups |-> 0,
     updates |-> 0]

\* ------------------------------------------------------------ initial state
FirstRun == [id |-> 1, start |-> 0, end |-> Open]

NoOp == [op |-> "none"]

Written == [op |-> "write"]

\* The recorder set up with a configuration that excludes the event types.
InitConfig(exclude_event_types) ==
    /\ now = 0
    /\ states = {}
    /\ events = {}
    /\ runs = {FirstRun}
    /\ run_id = FirstRun.id
    /\ old_states = [e \in Entities |-> NoId]
    /\ next_id = [states |-> 1, events |-> 1, runs |-> 2]
    /\ queue = <<>>
    /\ dialect \in Dialects
    /\ log = {}
    /\ sleeps = 0
    /\ moved_away = FALSE
    /\ fired = 0
    /\ calls = 0
    /\ errors = 0
    /\ last = NoOp
    /\ exclude_t = exclude_event_types
    /\ motion = MotionInit

Init == InitConfig(ExcludeEventTypes)

\* ------------------------------------------------ clock, ingestion, fixtures
Tick ==
    /\ now < MaxTime
    /\ now' = now + 1
    /\ UNCHANGED <<states, events, runs, run_id, old_states, next_id, queue,
                   dialect, log, sleeps, moved_away, fired, calls, errors, last,
                   exclude_t, motion>>

\* The instants of the fixtures, in days after the oldest of them: rows are
\* written eleven days ago, five days ago and now.
ElevenDays == 11

FiveDays == 5

KeepFourDays == 4

ElevenDaysAgo == 0

FiveDaysAgo == ElevenDays - FiveDays

UtcNow == ElevenDays

\* The fixtures patch the clock to the instant of the row they write; the
\* calls that follow read a clock that has moved on.
PatchClock(t) ==
    /\ t > now
    /\ now' = t
    /\ UNCHANGED <<states, events, runs, run_id, old_states, next_id, queue,
                   dialect, log, sleeps, moved_away, fired, calls, errors, last,
                   exclude_t, motion>>

\* hass.states.async_set: a state_changed event is put on the recorder queue.
SetState(entity_id) ==
    /\ fired < MaxRows
    /\ Len(queue) < MaxQueue
    /\ queue' = Append(queue, StateChangedItem(entity_id, now))
    /\ fired' = fired + 1
    /\ UNCHANGED <<now, states, events, runs, run_id, old_states, next_id,
                   dialect, log, sleeps, moved_away, calls, errors, last,
                   exclude_t, motion>>

\* Any other event fired on the bus.
FireEvent(event_type) ==
    /\ fired < MaxRows
    /\ Len(queue) < MaxQueue
    /\ queue' = Append(queue, EventItem(event_type, now))
    /\ fired' = fired + 1
    /\ UNCHANGED <<now, states, events, runs, run_id, old_states, next_id,
                   dialect, log, sleeps, moved_away, calls, errors, last,
                   exclude_t, motion>>

\* The worker records a state_changed event: the Events row and the States
\* row linked to it, the new row pointing at the entity's previous state.
RecordStateChanged ==
    /\ queue # <<>>
    /\ Head(queue).kind = EVENT_STATE_CHANGED
    /\ LET item == Head(queue)
           ev == [id |-> next_id.events, type |-> EVENT_STATE_CHANGED,
                  ts |-> item.time_fired]
           st == [id |-> next_id.states, entity_id |-> item.entity_id,
                  ts |-> item.time_fired, event_id |-> ev.id,
                  old_state_id |-> old_states[item.entity_id]]
       IN /\ events' = events \cup {ev}
          /\ states' = states \cup {st}
          /\ old_states' = [old_states EXCEPT ![item.entity_id] = st.id]
          /\ next_id' = [next_id EXCEPT !.events = @ + 1, !.states = @ + 1]
    /\ queue' = Tail(queue)
    /\ last' = Written
    /\ UNCHANGED <<now, runs, run_id, dialect, log, sleeps, moved_away, fired,
                   calls, errors,
                   exclude_t, motion>>

RecordEvent ==
    /\ queue # <<>>
    /\ Head(queue).kind = "event"
    /\ LET item == Head(queue)
           ev == [id |-> next_id.events, type |-> item.event_type,
                  ts |-> item.time_fired]
       IN /\ events' = events \cup {ev}
          /\ next_id' = [next_id EXCEPT !.events = @ + 1]
    /\ queue' = Tail(queue)
    /\ last' = Written
    /\ UNCHANGED <<now, states, runs, run_id, old_states, dialect, log, sleeps,
                   moved_away, fired, calls, errors,
                   exclude_t, motion>>

\* A State row without a state_changed event, inserted as the fixtures do.
AddState(entity_id) ==
    /\ next_id.states <= MaxRows
    /\ states' = states \cup {[id |-> next_id.states, entity_id |-> entity_id,
                                ts |-> now, event_id |-> NoId,
                                old_state_id |-> NoId]}
    /\ next_id' = [next_id EXCEPT !.states = @ + 1]
    /\ last' = Written
    /\ UNCHANGED <<now, events, runs, run_id, old_states, queue, dialect, log,
                   sleeps, moved_away, fired, calls, errors,
                   exclude_t, motion>>

\* A closed recorder run, inserted as the fixtures do: it starts now and ends
\* a day later, which a later purge may find before or after its cutoff.
AddRecorderRun(end) ==
    /\ Cardinality(runs) <= MaxRuns
    /\ end > now
    /\ runs' = runs \cup {[id |-> next_id.runs, start |-> now, end |-> end]}
    /\ next_id' = [next_id EXCEPT !.runs = @ + 1]
    /\ last' = Written
    /\ UNCHANGED <<now, states, events, run_id, old_states, queue, dialect, log,
                   sleeps, moved_away, fired, calls, errors,
                   exclude_t, motion>>

\* ----------------------------------------------------------------- services
\* The retention the recorder is configured with, used by a call that gives no
\* keep_days: it purges rows eleven days old and keeps rows five days old.
DEFAULT_KEEP_DAYS == 10

KeepDaysOmitted == 0 - 1

\* Variant of PurgeBefore that takes a call without keep_days to keep nothing.
PurgeBeforeNoDefault(keep_days) ==
    IF keep_days = KeepDaysOmitted THEN now ELSE now - keep_days

\* recorder.purge: the cutoff is the time of the call minus keep_days, or
\* minus the configured retention when the call gives no keep_days.
PurgeBefore(keep_days) ==
    now - (IF keep_days = KeepDaysOmitted THEN DEFAULT_KEEP_DAYS ELSE keep_days)

ServicePurge(keep_days, repack, apply_filter) ==
    /\ calls < MaxCalls
    /\ Len(queue) < MaxQueue
    /\ queue' = Append(queue, PurgeTask(PurgeBefore(keep_days), repack, apply_filter))
    /\ calls' = calls + 1
    /\ UNCHANGED <<now, states, events, runs, run_id, old_states, next_id,
                   dialect, log, sleeps, moved_away, fired, errors, last,
                   exclude_t, motion>>

\* recorder.purge_entities
ServicePurgeEntities(entity_ids, domains, entity_globs) ==
    /\ calls < MaxCalls
    /\ Len(queue) < MaxQueue
    /\ queue' = Append(queue, PurgeEntitiesTask(entity_ids, domains, entity_globs))
    /\ calls' = calls + 1
    /\ UNCHANGED <<now, states, events, runs, run_id, old_states, next_id,
                   dialect, log, sleeps, moved_away, fired, errors, last,
                   exclude_t, motion>>

\* Input of the services that the validation of the call does not accept: a
\* negative keep_days, an entity id without a domain.
NegativeKeepDays == 0 - 2

MalformedEntityId == <<"x">>

\* Variant of ValidPurgeCall that accepts any keep_days.
AnyPurgeCall(keep_days) == TRUE

\* keep_days is a non-negative integer, or is not given.
ValidPurgeCall(keep_days) == keep_days = KeepDaysOmitted \/ keep_days >= 0

ValidEntityId(entity_id) == \E i \in 1..Len(entity_id) : entity_id[i] = "."

ValidPurgeEntitiesCall(entity_ids) == \A e \in entity_ids : ValidEntityId(e)

\* A call that does not pass the validation: nothing is put on the queue.
Rejected ==
    /\ calls < MaxCalls
    /\ calls' = calls + 1
    /\ UNCHANGED <<now, states, events, runs, run_id, old_states, next_id, queue,
                   dialect, log, sleeps, moved_away, fired, errors, last,
                   exclude_t, motion>>

\* A call of recorder.purge with input that may be invalid.
CallPurge(keep_days, repack, apply_filter) ==
    IF ValidPurgeCall(keep_days)
    THEN ServicePurge(keep_days, repack, apply_filter)
    ELSE Rejected

\* A call of recorder.purge_entities with input that may be invalid.
CallPurgeEntities(entity_ids, domains, entity_globs) ==
    IF ValidPurgeEntitiesCall(entity_ids)
    THEN ServicePurgeEntities(entity_ids, domains, entity_globs)
    ELSE Rejected

\* ------------------------------------------------------------- purge engine
\* Variants of Expired with the boundary off by one, on either side.
ExpiredInclusive(ts, purge_before) == ts <= purge_before

ExpiredEarly(ts, purge_before) == ts + 1 < purge_before

\* Variant of Expired that spares the rows of the last days before the cutoff.
ExpiredLongAgo(ts, purge_before) == ts + KeepFourDays < purge_before

\* A row is older than the cutoff when its timestamp is strictly before it.
Expired(ts, purge_before) == ts < purge_before

\* Variant of StateCandidates that never applies the configured filter.
StateCandidatesExpired(purge_before, apply_filter) ==
    {s \in states : Expired(s.ts, purge_before)}

\* Variant of StateCandidates that applies the configured filter always.
StateCandidatesFiltered(purge_before, apply_filter) ==
    {s \in states : Expired(s.ts, purge_before) \/ ~EntityFilter(s.entity_id)}

\* The State rows a pass may delete: the expired ones and, with apply_filter,
\* those of the entities the configured filter rejects, whatever their age.
StateCandidates(purge_before, apply_filter) ==
    {s \in states : \/ Expired(s.ts, purge_before)
                    \/ (apply_filter /\ ~EntityFilter(s.entity_id))}

\* Variant of LinkedEvents that takes every state_changed event.
LinkedEventsAll(batch) == {e \in events : e.type = EVENT_STATE_CHANGED}

\* The state_changed events the rows of a batch are linked to.
LinkedEvents(batch) ==
    {e \in events : /\ e.type = EVENT_STATE_CHANGED
                    /\ \E s \in batch : s.event_id = e.id}

\* Variant of EventCandidates that never applies the exclusion of event types.
EventCandidatesExpired(purge_before, apply_filter) ==
    {e \in events : e.type # EVENT_STATE_CHANGED /\ Expired(e.ts, purge_before)}

\* Variant of EventCandidates that never takes a state_changed event.
EventCandidatesOtherTypes(purge_before, apply_filter) ==
    {e \in events : /\ e.type # EVENT_STATE_CHANGED
                    /\ \/ Expired(e.ts, purge_before)
                       \/ (apply_filter /\ e.type \in exclude_t)}

\* Events of the other types go by their own timestamp; with apply_filter,
\* the events of every excluded type are candidates, state_changed included.
EventCandidates(purge_before, apply_filter) ==
    {e \in events : \/ e.type # EVENT_STATE_CHANGED /\ Expired(e.ts, purge_before)
                    \/ apply_filter /\ e.type \in exclude_t}

\* Variant of LinkedStates that leaves the states of the events in place.
LinkedStatesNone(event_batch) == {}

\* The states linked to the events of a batch.
LinkedStates(event_batch) ==
    {s \in states : \E e \in event_batch : /\ e.type = EVENT_STATE_CHANGED
                                           /\ s.event_id = e.id}

\* Variant of RunCandidates that goes by the end of the run.
RunCandidatesByEnd(purge_before) ==
    {r \in runs : r.id # run_id /\ r.end # Open /\ r.end <= purge_before}

\* Variant of RunCandidates that does not spare the current run.
RunCandidatesAll(purge_before) ==
    {r \in runs : r.start < purge_before}

\* The recorder runs a pass may delete: started before the cutoff, and never
\* the current run.
RunCandidates(purge_before) ==
    {r \in runs : r.id # run_id /\ r.start < purge_before}

\* Variant of RunBatch that deletes runs in every pass.
RunBatchAlways(state_batch, event_batch, run_batch) == run_batch

\* The runs a pass deletes: its batch of runs when it found no state and no
\* event to delete, none otherwise.
RunBatch(state_batch, event_batch, run_batch) ==
    IF state_batch = {} /\ event_batch = {} THEN run_batch ELSE {}

\* Variant of PurgeStateIds that points the rows that lose their predecessor
\* at the oldest row that is left.
PurgeStateIdsRelinked(batch) ==
    {[s EXCEPT !.old_state_id =
         IF @ \in Ids(batch)
         THEN CHOOSE i \in Ids(states \ batch) :
                 \A j \in Ids(states \ batch) : i <= j
         ELSE @] : s \in states \ batch}

\* Variant of PurgeStateIds whose repair nulls the event_id instead.
PurgeStateIdsWrongColumn(batch) ==
    {[s EXCEPT !.event_id = IF s.old_state_id \in Ids(batch) THEN NoId ELSE @] :
        s \in states \ batch}

\* Variant of PurgeStateIds that sets every old_state_id to null.
PurgeStateIdsNullAll(batch) ==
    {[s EXCEPT !.old_state_id = NoId] : s \in states \ batch}

\* Variant of PurgeStateIds that deletes the batch without the repair.
PurgeStateIdsNoRepair(batch) == states \ batch

\* Deleting a batch of states: the old_state_id of every surviving row that
\* points into the batch is set to null first, then the batch is deleted.
PurgeStateIds(batch) ==
    {[s EXCEPT !.old_state_id = IF @ \in Ids(batch) THEN NoId ELSE @] :
        s \in states \ batch}

\* Variant of EvictPurgedStates that leaves instance._old_states as it is.
EvictNothing(batch) == old_states

\* The entries of instance._old_states that refer to a purged state are evicted.
EvictPurgedStates(batch) ==
    [e \in Entities |-> IF old_states[e] \in Ids(batch) THEN NoId ELSE old_states[e]]

\* Variant of Finished: a pass is finished when no batch was full.
FinishedWhenNotFull(state_batch, event_batch, run_batch) ==
    /\ Cardinality(state_batch) < MAX_ROWS_TO_PURGE
    /\ Cardinality(event_batch) < MAX_ROWS_TO_PURGE
    /\ Cardinality(run_batch) < MAX_ROWS_TO_PURGE

\* Variant of Finished that never reports the end.
FinishedNever(state_batch, event_batch, run_batch) == FALSE

\* Variant of Finished that looks at the batch of runs alone.
FinishedWhenRunsDone(state_batch, event_batch, run_batch) ==
    Cardinality(run_batch) < MAX_ROWS_TO_PURGE

\* Variant of Finished that forgets the events the pass deleted.
FinishedStatesOnly(state_batch, event_batch, run_batch) ==
    /\ state_batch = {}
    /\ Cardinality(run_batch) < MAX_ROWS_TO_PURGE

\* A pass is finished when it found no state or event to delete and its batch
\* of runs was not full.
Finished(state_batch, event_batch, run_batch) ==
    /\ state_batch = {}
    /\ event_batch = {}
    /\ Cardinality(run_batch) < MAX_ROWS_TO_PURGE

Snapshot == [states |-> states, events |-> events, runs |-> runs]

NoError == [kind |-> "none", code |-> 0]

OperationalError(code) == [kind |-> "operational", code |-> code]

DatabaseCorruption == [kind |-> "corruption", code |-> 0]

\* What the previous operation of the worker was, kept with each attempt.
Summary(l) ==
    IF l.op \in {"purge", "purge_entities"}
    THEN [op |-> l.op, task |-> l.task, outcome |-> l.outcome,
          finished |-> l.finished]
    ELSE [op |-> l.op]

\* The record of a purge attempt: the task, the error it raised if any, how
\* it ended, and the tables as they were when it began.
Attempt(task, error, outcome, finished, repacked) ==
    [op |-> task.kind, task |-> task, error |-> error, outcome |-> outcome,
     finished |-> finished, repacked |-> repacked, before |-> Snapshot,
     prev |-> Summary(last)]

\* Variant of Requeue that keeps an unfinished task at the head of the queue.
RequeueAtFront(task, finished) ==
    IF finished THEN Tail(queue) ELSE <<task>> \o Tail(queue)

\* Variant of Requeue that puts the task again without its options.
RequeueDefaults(task, finished) ==
    IF finished THEN Tail(queue)
    ELSE Append(Tail(queue), PurgeTask(task.purge_before, FALSE, FALSE))

\* Variant of Requeue that never puts the task again.
RequeueNever(task, finished) == Tail(queue)

\* The queue after a purge attempt: an unfinished task is put again.
Requeue(task, finished) ==
    IF finished THEN Tail(queue) ELSE Append(Tail(queue), task)

\* Variant of Repacks that vacuums after every pass of a task that asks for it.
RepacksWhenAsked(task, finished) == task.repack

\* The database is vacuumed at the end of the pass that finishes a task that
\* asked for a repack.
Repacks(task, finished) == finished /\ task.repack

VACUUM_MESSAGE == "Vacuuming SQL DB to free space"

\* One successful pass of purge_old_data for the PurgeTask at the head of the
\* queue, in one transaction.
RunPurge ==
    /\ queue # <<>>
    /\ Head(queue).kind = "purge"
    /\ LET task == Head(queue) IN
       \E sb \in Batches(StateCandidates(task.purge_before, task.apply_filter),
                         MAX_ROWS_TO_PURGE) :
       \E eb \in Batches(EventCandidates(task.purge_before, task.apply_filter),
                         MAX_ROWS_TO_PURGE - Cardinality(LinkedEvents(sb))) :
       \E rb \in Batches(RunCandidates(task.purge_before), MAX_ROWS_TO_PURGE) :
         LET state_batch == sb \cup LinkedStates(eb)
             event_batch == LinkedEvents(sb) \cup eb
             run_batch == RunBatch(state_batch, event_batch, rb)
             finished == Finished(state_batch, event_batch, run_batch)
             repacked == Repacks(task, finished)
         IN /\ states' = PurgeStateIds(state_batch)
            /\ old_states' = EvictPurgedStates(state_batch)
            /\ events' = events \ event_batch
            /\ runs' = runs \ run_batch
            /\ log' = IF repacked THEN log \cup {VACUUM_MESSAGE}
                      ELSE log
            /\ queue' = Requeue(task, finished)
            /\ last' = Attempt(task, NoError, "SUCCESS", finished, repacked)
    /\ UNCHANGED <<now, run_id, next_id, dialect, sleeps, moved_away, fired,
                   calls, errors,
                   exclude_t, motion>>

\* The State rows a purge_entities task selects.
SelectedStates(task) ==
    {s \in states :
        SelectorMatch(task.entity_ids, task.domains, task.entity_globs, s.entity_id)}

\* One successful pass of purge_entity_data for the PurgeEntitiesTask at the
\* head of the queue: a batch of the selected states and their events.
RunPurgeEntities ==
    /\ queue # <<>>
    /\ Head(queue).kind = "purge_entities"
    /\ LET task == Head(queue) IN
       \E sb \in Batches(SelectedStates(task), MAX_ROWS_TO_PURGE) :
         LET finished == sb = {}
         IN /\ states' = PurgeStateIds(sb)
            /\ old_states' = EvictPurgedStates(sb)
            /\ events' = events \ LinkedEvents(sb)
            /\ queue' = Requeue(task, finished)
            /\ last' = Attempt(task, NoError, "SUCCESS", finished, FALSE)
    /\ UNCHANGED <<now, runs, run_id, next_id, dialect, log, sleeps, moved_away,
                   fired, calls, errors,
                   exclude_t, motion>>

\* ------------------------------------------------------ retry/failure shell
\* The State rows the attempt at a task selects for deletion.
AttemptCandidates(task) ==
    IF task.kind = "purge"
    THEN StateCandidates(task.purge_before, task.apply_filter)
    ELSE SelectedStates(task)

\* The tables inside the transaction of an attempt that had issued the
\* deletion of a batch of states and of their events when the error was raised.
Pending(batch) ==
    [states |-> PurgeStateIds(batch), events |-> events \ LinkedEvents(batch),
     runs |-> runs]

\* Variant of RolledBack that undoes the deletion of the events and not that
\* of the states.
HalfRolledBack(before, pending) == [before EXCEPT !.states = pending.states]

\* Variant of RolledBack that keeps what the failing transaction had done.
NotRolledBack(before, pending) == pending

\* The tables after an attempt whose transaction did not commit.
RolledBack(before, pending) == before

\* Variant of IsTransient that takes the retryable codes on any backend.
IsTransientAnyBackend(backend, code) == code \in RETRYABLE_MYSQL_ERRORS

\* Variant of IsTransient that retries every operational error of mysql.
IsTransientAnyCode(backend, code) == backend = "mysql"

\* Variant of IsTransient that knows the deadlock code alone.
IsTransientDeadlockOnly(backend, code) == backend = "mysql" /\ code = 1213

\* An operational error is transient when its code is one the active backend
\* is known to recover from.
IsTransient(backend, code) ==
    backend = "mysql" /\ code \in RETRYABLE_MYSQL_ERRORS

\* The attempt raises a transient operational error after it issued the
\* deletion of a batch: its transaction is rolled back, the shell sleeps, logs
\* "retrying" and puts the same task again.
PurgeRetryableFailure(code) ==
    /\ queue # <<>>
    /\ IsPurgeWork(Head(queue))
    /\ errors < MaxErrors
    /\ IsTransient(dialect, code)
    /\ errors' = errors + 1
    /\ sleeps' = sleeps + 1
    /\ log' = log \cup {"retrying"}
    /\ queue' = Append(Tail(queue), Head(queue))
    /\ last' = Attempt(Head(queue), OperationalError(code), "RETRYABLE_FAILURE",
                        FALSE, FALSE)
    /\ \E sb \in Batches(AttemptCandidates(Head(queue)), MAX_ROWS_TO_PURGE) :
         LET store == RolledBack(Snapshot, Pending(sb))
         IN /\ states' = store.states
            /\ events' = store.events
            /\ runs' = store.runs
    /\ UNCHANGED <<now, run_id, old_states, next_id, dialect, moved_away,
                   fired, calls,
                   exclude_t, motion>>

\* Variant of PurgeFatalFailure in which the error escapes the task: the worker
\* thread ends and what is on the queue is never taken.
PurgeFatalFailureEscapes(code) ==
    /\ queue # <<>>
    /\ IsPurgeWork(Head(queue))
    /\ errors < MaxErrors
    /\ ~IsTransient(dialect, code)
    /\ errors' = errors + 1
    /\ log' = log \cup {"Error executing purge"}
    /\ queue' = <<[kind |-> "stopped"]>> \o Tail(queue)
    /\ last' = Attempt(Head(queue), OperationalError(code), "FATAL_FAILURE",
                        FALSE, FALSE)
    /\ UNCHANGED <<now, states, events, runs, run_id, old_states, next_id,
                   dialect, sleeps, moved_away, fired, calls,
                   exclude_t, motion>>

\* The attempt raises any other operational error after it issued the deletion
\* of a batch: its transaction is rolled back, the error is logged and the
\* task is dropped.
PurgeFatalFailure(code) ==
    /\ queue # <<>>
    /\ IsPurgeWork(Head(queue))
    /\ errors < MaxErrors
    /\ ~IsTransient(dialect, code)
    /\ errors' = errors + 1
    /\ log' = log \cup {"Error executing purge"}
    /\ queue' = Tail(queue)
    /\ last' = Attempt(Head(queue), OperationalError(code), "FATAL_FAILURE",
                        FALSE, FALSE)
    /\ \E sb \in Batches(AttemptCandidates(Head(queue)), MAX_ROWS_TO_PURGE) :
         LET store == RolledBack(Snapshot, Pending(sb))
         IN /\ states' = store.states
            /\ events' = store.events
            /\ runs' = store.runs
    /\ UNCHANGED <<now, run_id, old_states, next_id, dialect, sleeps,
                   moved_away, fired, calls,
                   exclude_t, motion>>

\* Variant of PurgeCorruption that treats the malformed database as a
\* transient error: the file stays and the task is put again.
PurgeCorruptionRetried ==
    /\ queue # <<>>
    /\ IsPurgeWork(Head(queue))
    /\ errors < MaxErrors
    /\ errors' = errors + 1
    /\ sleeps' = sleeps + 1
    /\ log' = log \cup {"retrying"}
    /\ queue' = Append(Tail(queue), Head(queue))
    /\ last' = Attempt(Head(queue), DatabaseCorruption, "CORRUPTION", FALSE, FALSE)
    /\ UNCHANGED <<now, states, events, runs, run_id, old_states, next_id,
                   dialect, moved_away, fired, calls,
                   exclude_t, motion>>

\* The attempt finds the database malformed: the broken file is moved away and
\* a fresh, empty database with a new current run is set up; no retry.
PurgeCorruption ==
    /\ queue # <<>>
    /\ IsPurgeWork(Head(queue))
    /\ errors < MaxErrors
    /\ errors' = errors + 1
    /\ moved_away' = TRUE
    /\ states' = {}
    /\ events' = {}
    /\ runs' = {[id |-> 1, start |-> now, end |-> Open]}
    /\ run_id' = 1
    /\ old_states' = [e \in Entities |-> NoId]
    /\ next_id' = [states |-> 1, events |-> 1, runs |-> 2]
    /\ queue' = Tail(queue)
    /\ last' = Attempt(Head(queue), DatabaseCorruption, "CORRUPTION", FALSE, FALSE)
    /\ UNCHANGED <<now, dialect, log, sleeps, fired, calls,
                   exclude_t, motion>>

\* ---------------------------------------------- motion_blinds: the handlers
\* The variables of the recorder, which motion_blinds leaves alone.
recorder == <<now, states, events, runs, run_id, old_states, next_id, queue,
              dialect, log, sleeps, moved_away, fired, calls, errors, last,
              exclude_t>>

\* Variant of UpdateGateway that polls the blinds whatever the gateway answers.
UpdateGatewayKeepsPolling(wait_for_push, gateway_ok, blind_ok) ==
    [data |-> [k \in {KEY_GATEWAY} \cup DOMAIN blind_ok |->
                  [available |-> IF k = KEY_GATEWAY THEN gateway_ok
                                 ELSE blind_ok[k]]],
     polled |-> [b \in DOMAIN blind_ok |->
                    IF wait_for_push THEN "Update" ELSE "Update_trigger"]]

\* update_gateway: the gateway is updated first; if that fails the result is
\* the gateway alone, unavailable; otherwise every blind of the device list is
\* polled, with Update or Update_trigger, and reported available or not.
UpdateGateway(wait_for_push, gateway_ok, blind_ok) ==
    IF ~gateway_ok
    THEN [data |-> [k \in {KEY_GATEWAY} |-> [available |-> FALSE]],
          polled |-> EmptyDict]
    ELSE [data |-> [k \in {KEY_GATEWAY} \cup DOMAIN blind_ok |->
                       [available |-> IF k = KEY_GATEWAY THEN TRUE
                                      ELSE blind_ok[k]]],
          polled |-> [b \in DOMAIN blind_ok |->
                         IF wait_for_push THEN "Update" ELSE "Update_trigger"]]

\* Variant of AllAvailable that looks at the blinds alone.
AllBlindsAvailable(data) ==
    \A k \in DOMAIN data \ {KEY_GATEWAY} : data[k].available

\* all(device[ATTR_AVAILABLE] for device in data.values())
AllAvailable(data) == \A k \in DOMAIN data : data[k].available

\* _async_update_data: the coordinator after one update, with what the
\* gateway and the blinds answered kept next to the result.
AsyncUpdateData(c, wait_for_push, gateway_ok, blind_ok) ==
    LET r == UpdateGateway(wait_for_push, gateway_ok, blind_ok)
    IN [update_interval |-> IF AllAvailable(r.data) THEN UPDATE_INTERVAL
                            ELSE UPDATE_INTERVAL_FAST,
        data |-> r.data, polled |-> r.polled, updated |-> TRUE,
        gateway_ok |-> gateway_ok, blind_ok |-> blind_ok]

\* async_setup_entry up to its first await: the listener is created and
\* registered if its key is not in hass.data[DOMAIN], and Start_listen is
\* awaited; otherwise the registered listener is taken and the connection to
\* the gateway is awaited.
SetupEntryBegin(e, wait_for_push) ==
    /\ motion.pc[e] = "not_loaded"
    /\ motion.setups < MaxSetups
    /\ motion' =
          IF KEY_MULTICAST_LISTENER \notin DOMAIN motion.data
          THEN [motion EXCEPT
                   !.multicast = Append(@, NewMulticast),
                   !.data = SetItem(@, KEY_MULTICAST_LISTENER,
                                    Len(motion.multicast) + 1),
                   !.local[e] = Len(motion.multicast) + 1,
                   !.wait_for_push[e] = wait_for_push,
                   !.pc[e] = "start_listen",
                   !.setups = @ + 1]
          ELSE [motion EXCEPT
                   !.local[e] = motion.data[KEY_MULTICAST_LISTENER],
                   !.wait_for_push[e] = wait_for_push,
                   !.pc[e] = "connect",
                   !.setups = @ + 1]
    /\ UNCHANGED recorder

\* Start_listen returns: the listener is started; then the listener is read
\* from hass.data[DOMAIN], which raises KeyError if it was removed meanwhile.
SetupStartListen(e) ==
    /\ motion.pc[e] = "start_listen"
    /\ LET started == [motion EXCEPT !.multicast[motion.local[e]].starts = @ + 1]
       IN motion' =
             IF KEY_MULTICAST_LISTENER \in DOMAIN motion.data
             THEN [started EXCEPT
                      !.local[e] = motion.data[KEY_MULTICAST_LISTENER],
                      !.pc[e] = "connect"]
             ELSE [started EXCEPT
                      !.raised = @ \cup {<<"async_setup_entry", e, "KeyError">>},
                      !.pc[e] = "setup_error"]
    /\ UNCHANGED recorder

\* async_connect_gateway returns: ConfigEntryNotReady if it failed, otherwise
\* the coordinator is made and its first refresh is awaited.
SetupConnect(e, connected) ==
    /\ motion.pc[e] = "connect"
    /\ motion' =
          IF connected
          THEN [motion EXCEPT !.coordinator[e] = NewCoordinator,
                              !.pc[e] = "first_refresh"]
          ELSE [motion EXCEPT !.pc[e] = "not_loaded"]
    /\ UNCHANGED recorder

\* The first refresh returns: the entry is registered in hass.data[DOMAIN]
\* and the device registry is awaited.
SetupFirstRefresh(e, gateway_ok, blind_ok) ==
    /\ motion.pc[e] = "first_refresh"
    /\ motion' =
          [motion EXCEPT
              !.coordinator[e] =
                 AsyncUpdateData(@, motion.wait_for_push[e], gateway_ok, blind_ok),
              !.data = SetItem(@, e, e),
              !.pc[e] = "registry"]
    /\ UNCHANGED recorder

\* The device is registered, the platforms are set up: the entry is loaded.
SetupFinish(e) ==
    /\ motion.pc[e] = "registry"
    /\ motion' = [motion EXCEPT !.pc[e] = "loaded"]
    /\ UNCHANGED recorder

\* A poll of the coordinator of a loaded entry.
PollCoordinator(e, gateway_ok, blind_ok) ==
    /\ motion.pc[e] = "loaded"
    /\ motion.updates < MaxUpdates
    /\ motion' =
          [motion EXCEPT
              !.coordinator[e] =
                 AsyncUpdateData(@, motion.wait_for_push[e], gateway_ok, blind_ok),
              !.updates = @ + 1]
    /\ UNCHANGED recorder

\* async_unload_entry up to its await of async_unload_platforms.
UnloadEntryBegin(e) ==
    /\ motion.pc[e] = "loaded"
    /\ motion' = [motion EXCEPT !.pc[e] = "unloading"]
    /\ UNCHANGED recorder

\* Variant of AfterUnload that stops the listener after every successful
\* unload.
AfterUnloadAlwaysStops(e, unload_ok, m) ==
    LET data == IF unload_ok THEN Pop(m.data, e) ELSE m.data
        popped == [m EXCEPT !.data = data]
        done == IF unload_ok THEN "not_loaded" ELSE "failed_unload"
    IN IF ~unload_ok \/ KEY_MULTICAST_LISTENER \notin DOMAIN data
       THEN [popped EXCEPT !.pc[e] = done]
       ELSE [popped EXCEPT
                !.data = Pop(@, KEY_MULTICAST_LISTENER),
                !.multicast[data[KEY_MULTICAST_LISTENER]].stops = @ + 1,
                !.pc[e] = done]

\* async_unload_entry after async_unload_platforms returned unload_ok: the
\* entry is popped if unload_ok; then, if one key is left, the listener is
\* popped, which raises KeyError if that key is not the listener's, and
\* stopped.
AfterUnload(e, unload_ok, m) ==
    LET data == IF unload_ok THEN Pop(m.data, e) ELSE m.data
        popped == [m EXCEPT !.data = data]
        done == IF unload_ok THEN "not_loaded" ELSE "failed_unload"
    IN IF Cardinality(DOMAIN data) # 1
       THEN [popped EXCEPT !.pc[e] = done]
       ELSE IF KEY_MULTICAST_LISTENER \notin DOMAIN data
       THEN [popped EXCEPT
                !.raised = @ \cup {<<"async_unload_entry", e, "KeyError">>},
                !.pc[e] = "failed_unload"]
       ELSE [popped EXCEPT
                !.data = Pop(@, KEY_MULTICAST_LISTENER),
                !.multicast[data[KEY_MULTICAST_LISTENER]].stops = @ + 1,
                !.pc[e] = done]

UnloadEntryEnd(e, unload_ok) ==
    /\ motion.pc[e] = "unloading"
    /\ motion' = AfterUnload(e, unload_ok, motion)
    /\ UNCHANGED recorder

\* ----------------------------------------------------------- specifications
InitSqlite == Init /\ dialect = "sqlite"

\* The recorder configured to exclude the state_changed events.
InitStateChanged == InitConfig({EVENT_STATE_CHANGED}) /\ dialect = "sqlite"

\* The ingestion path for the given entities and event types.
Ingest(entity_ids, event_types) ==
    \/ Tick
    \/ \E e \in entity_ids : SetState(e)
    \/ \E t \in event_types : FireEvent(t)
    \/ RecordStateChanged
    \/ RecordEvent

\* Time-based purge of states and events, next to ingestion.
Next ==
    \/ Ingest({SensorKeep}, {EVENT_TEST})
    \/ \E k \in 0..MaxTime : k <= now /\ ServicePurge(k, FALSE, FALSE)
    \/ RunPurge

Spec == InitSqlite /\ [][Next]_vars

\* Time-based purge with closed recorder runs in the table; as in the tests,
\* the rows are all inserted before the first call of the service.
NextRuns ==
    \/ Tick
    \/ calls = 0 /\ fired <= MAX_ROWS_TO_PURGE /\ SetState(SensorKeep)
    \/ RecordStateChanged
    \/ \E end \in {now + 1, MaxTime + 1} : calls = 0 /\ AddRecorderRun(end)
    \/ \E k \in 0..MaxTime : k <= now /\ ServicePurge(k, FALSE, FALSE)
    \/ RunPurge

SpecRuns == InitSqlite /\ [][NextRuns]_vars

\* One call of purge after the states were written and the runs inserted:
\* a fixed cutoff and no ingestion once the task is on the queue.
NextRepeated ==
    \/ Tick
    \/ calls = 0 /\ fired <= MAX_ROWS_TO_PURGE /\ SetState(SensorKeep)
    \/ RecordStateChanged
    \/ calls = 0 /\ queue = <<>> /\ AddRecorderRun(MaxTime + 1)
    \/ calls = 0 /\ ServicePurge(0, FALSE, FALSE)
    \/ RunPurge

SpecRepeated == InitSqlite /\ [][NextRepeated]_vars

\* The worker thread keeps taking the item at the head of the queue.
LiveRepeated ==
    /\ SpecRepeated
    /\ WF_vars(RecordStateChanged)
    /\ WF_vars(RunPurge)

\* Every kind of purge pass on the states of an excluded and a kept entity:
\* by cutoff, by the configured filter, and by entity.
NextStore ==
    \/ Tick
    \/ \E e \in {SensorExcluded, SensorKeep} : SetState(e)
    \/ RecordStateChanged
    \/ \E k \in 0..MaxTime : k <= now /\ ServicePurge(k, FALSE, TRUE)
    \/ ServicePurgeEntities({SensorExcluded}, {}, {})
    \/ RunPurge
    \/ RunPurgeEntities

SpecStore == InitSqlite /\ [][NextStore]_vars

\* Purge by entity, next to the ingestion of states.
NextEntities ==
    \/ \E e \in Entities : fired <= MAX_ROWS_TO_PURGE /\ SetState(e)
    \/ RecordStateChanged
    \/ \E i \in EntityIdSelectors, d \in DomainSelectors, g \in GlobSelectors :
          ServicePurgeEntities(i, d, g)
    \/ RunPurgeEntities

SpecEntities == InitSqlite /\ [][NextEntities]_vars

\* The worker thread keeps taking the item at the head of the queue.
LiveEntities ==
    /\ SpecEntities
    /\ WF_vars(RecordStateChanged)
    /\ WF_vars(RunPurgeEntities)

\* One call of purge after the states were written: nothing but the worker
\* acts on the queue once the task is on it.
NextPurge ==
    \/ Tick
    \/ calls = 0 /\ fired <= MAX_ROWS_TO_PURGE /\ SetState(SensorKeep)
    \/ RecordStateChanged
    \/ \E r \in BOOLEAN : calls = 0 /\ ServicePurge(0, r, FALSE)
    \/ RunPurge

SpecPurge == InitSqlite /\ [][NextPurge]_vars

\* The worker thread keeps taking the item at the head of the queue.
LivePurge ==
    /\ SpecPurge
    /\ WF_vars(RecordStateChanged)
    /\ WF_vars(RunPurge)

\* Time-based purge on either backend, with attempts that raise errors.
NextShell ==
    \/ Tick
    \/ fired <= MAX_ROWS_TO_PURGE /\ SetState(SensorKeep)
    \/ RecordStateChanged
    \/ \E r \in BOOLEAN : ServicePurge(0, r, FALSE)
    \/ RunPurge
    \/ \E c \in ErrorCodes : PurgeRetryableFailure(c)
    \/ \E c \in ErrorCodes : PurgeFatalFailure(c)
    \/ PurgeCorruption

SpecShell == Init /\ [][NextShell]_vars

\* Time-based purge, with and without apply_filter, of a store that holds
\* states of an excluded and of a kept entity and events of an excluded and of
\* a kept type; as in the tests, the rows are inserted and recorded one after
\* the other before the first call of the service.
NextFilter ==
    \/ Tick
    \/ \E e \in {SensorExcluded, SensorKeep} :
          calls = 0 /\ queue = <<>> /\ fired <= MAX_ROWS_TO_PURGE /\ SetState(e)
    \/ \E t \in {EVENT_PURGE, EVENT_TEST} :
          calls = 0 /\ queue = <<>> /\ fired <= MAX_ROWS_TO_PURGE /\ FireEvent(t)
    \/ RecordStateChanged
    \/ RecordEvent
    \/ fired = 0 /\ next_id.states = 1 /\ AddState(SensorExcluded)
    \/ \E f \in BOOLEAN : ServicePurge(0, FALSE, f)
    \/ RunPurge

SpecFilter == InitSqlite /\ [][NextFilter]_vars

\* Purge with apply_filter of a store that holds states with and without a
\* state_changed event, under a configuration that excludes state_changed; the
\* states without event are inserted first.
NextStateChanged ==
    \/ Tick
    \/ calls = 0 /\ queue = <<>> /\ fired <= MAX_ROWS_TO_PURGE /\ SetState(SensorKeep)
    \/ RecordStateChanged
    \/ fired = 0 /\ next_id.states <= MAX_ROWS_TO_PURGE /\ AddState(SensorKeep)
    \/ \E k \in {0, MaxTime} : k <= now /\ ServicePurge(k, FALSE, TRUE)
    \/ RunPurge

SpecStateChanged == InitStateChanged /\ [][NextStateChanged]_vars

\* The scenario of the states fixture: a few states written eleven and five
\* days ago, never more than one batch, then states written now, then purges
\* that keep four days or the configured retention, and later purges that
\* keep nothing.
NextScenario ==
    \/ \E t \in {FiveDaysAgo, UtcNow, UtcNow + 1} : PatchClock(t)
    \/ /\ calls = 0
       /\ queue = <<>>
       /\ now < UtcNow => fired < MAX_ROWS_TO_PURGE
       /\ SetState(SensorKeep)
    \/ RecordStateChanged
    \/ \E k \in {KeepFourDays, KeepDaysOmitted} :
          now = UtcNow /\ ServicePurge(k, FALSE, FALSE)
    \/ now > UtcNow /\ ServicePurge(0, FALSE, FALSE)
    \/ RunPurge

SpecScenario == InitSqlite /\ [][NextScenario]_vars

\* Calls of both services with valid and invalid input, after the rows have
\* been written.
NextService ==
    \/ Tick
    \/ calls = 0 /\ fired <= MAX_ROWS_TO_PURGE /\ SetState(SensorKeep)
    \/ RecordStateChanged
    \/ \E k \in {0, NegativeKeepDays} : CallPurge(k, FALSE, FALSE)
    \/ \E i \in {{SensorKeep}, {MalformedEntityId}} : CallPurgeEntities(i, {}, {})
    \/ RunPurge
    \/ RunPurgeEntities

SpecService == InitSqlite /\ [][NextService]_vars

\* Both purge services called while attempts raise errors.
NextCaller ==
    \/ SetState(SensorKeep)
    \/ RecordStateChanged
    \/ \E k \in 0..MaxTime : k <= now /\ ServicePurge(k, FALSE, FALSE)
    \/ ServicePurgeEntities({}, {<<"s">>}, {})
    \/ RunPurge
    \/ RunPurgeEntities
    \/ \E c \in ErrorCodes : PurgeRetryableFailure(c)
    \/ \E c \in ErrorCodes : PurgeFatalFailure(c)

SpecCaller == Init /\ [][NextCaller]_vars

\* The worker thread keeps taking the item at the head of the queue.
LiveCaller ==
    /\ SpecCaller
    /\ WF_vars(RecordStateChanged)
    /\ WF_vars(RunPurge)
    /\ WF_vars(RunPurgeEntities)

\* The config entries of motion_blinds are set up and unloaded, their
\* handlers interleaved at every await; the gateways answer every update.
NextMotion ==
    \/ \E e \in EntryIds, w \in BOOLEAN : SetupEntryBegin(e, w)
    \/ \E e \in EntryIds : SetupStartListen(e)
    \/ \E e \in EntryIds, connected \in BOOLEAN : SetupConnect(e, connected)
    \/ \E e \in EntryIds : SetupFirstRefresh(e, TRUE, EmptyDict)
    \/ \E e \in EntryIds : SetupFinish(e)
    \/ \E e \in EntryIds : UnloadEntryBegin(e)
    \/ \E e \in EntryIds, unload_ok \in BOOLEAN : UnloadEntryEnd(e, unload_ok)

SpecMotion == InitSqlite /\ [][NextMotion]_vars

\* One config entry of motion_blinds is set up and its coordinator is polled,
\* with every answer of the gateway and of the blinds of its device list.
NextCoordinator ==
    \/ \E w \in BOOLEAN : SetupEntryBegin("entry1", w)
    \/ SetupStartListen("entry1")
    \/ SetupConnect("entry1", TRUE)
    \/ \E g \in BOOLEAN, device_list \in SUBSET Blinds :
          \E blind_ok \in [device_list -> BOOLEAN] :
             SetupFirstRefresh("entry1", g, blind_ok)
    \/ SetupFinish("entry1")
    \/ \E g \in BOOLEAN, device_list \in SUBSET Blinds :
          \E blind_ok \in [device_list -> BOOLEAN] :
             PollCoordinator("entry1", g, blind_ok)

SpecCoordinator == InitSqlite /\ [][NextCoordinator]_vars

\* ------------------------------------------------------------------ claims
\* The last operation of the worker was a successful pass of purge_old_data.
PurgePassed == last.op = "purge" /\ last.outcome = "SUCCESS"

\* The row of the states table with the same identifier is the same row,
\* its old_state_id aside.
SameState(s, r) ==
    /\ r.id = s.id
    /\ r.entity_id = s.entity_id
    /\ r.ts = s.ts
    /\ r.event_id = s.event_id

StateKept(s) == \E r \in states : SameState(s, r)

\* Rows the purge passes have deleted from the states table since start-up.
StatesDeleted == (next_id.states - 1) - Cardinality(states)

\* C1: no pass of purge(C) without filter deletes a State or Event row whose
\* timestamp is >= C, and once a pass returns finished = true no State or
\* Event row with timestamp < C is left.
C1_PurgeUntilFinished ==
    (PurgePassed /\ ~last.task.apply_filter) =>
        LET c == last.task.purge_before IN
        /\ \A s \in last.before.states : s.ts >= c => StateKept(s)
        /\ \A e \in last.before.events : e.ts >= c => e \in events
        /\ last.finished =>
              /\ \A s \in states : s.ts >= c
              /\ \A e \in events : e.ts >= c

\* C1 witness: a purge has finished, it has deleted rows and left others.
C1_Witness ==
    /\ PurgePassed
    /\ last.finished
    /\ StatesDeleted > 0
    /\ \E s \in states : s.ts >= last.task.purge_before
    /\ \E e \in events : e.type = EVENT_TEST /\ e.ts >= last.task.purge_before
    /\ Cardinality(events) < next_id.events - 1

\* C2: a pass without filter never deletes a State or Event row whose
\* timestamp equals the cutoff, and when a pass returns finished = true no
\* row one tick below the cutoff is left.
C2_BoundaryRow ==
    (PurgePassed /\ ~last.task.apply_filter) =>
        LET c == last.task.purge_before IN
        /\ \A s \in last.before.states : s.ts = c => s.id \in Ids(states)
        /\ \A e \in last.before.events : e.ts = c => e.id \in Ids(events)
        /\ last.finished =>
              /\ ~\E s \in states : s.ts = c - 1
              /\ ~\E e \in events : e.ts = c - 1

\* C2 witness: a finished purge that had more than MAX_ROWS_TO_PURGE states
\* below the cutoff to delete and kept the row at the cutoff.
C2_Witness ==
    /\ PurgePassed
    /\ last.finished
    /\ StatesDeleted > MAX_ROWS_TO_PURGE
    /\ \E s \in states : s.ts = last.task.purge_before
    /\ \E e \in events : e.ts = last.task.purge_before

\* The pass before this one was a finished pass of the same PurgeTask, with
\* nothing written in between.
AfterFinished ==
    /\ PurgePassed
    /\ last.prev.op = "purge"
    /\ last.prev.outcome = "SUCCESS"
    /\ last.prev.finished
    /\ last.prev.task = last.task

\* C5: a pass of purge(C) that follows a finished pass of purge(C) deletes no
\* row, changes no old_state_id and returns finished = true again.
C5_Idempotent ==
    AfterFinished =>
        /\ states = last.before.states
        /\ events = last.before.events
        /\ runs = last.before.runs
        /\ last.finished

\* C5 witness: purge(C) ran again after it had finished and deleted rows.
C5_Witness ==
    /\ AfterFinished
    /\ StatesDeleted > 0
    /\ states # {}

\* The last operation of the worker was a successful pass of either purge.
AnyPurgePassed ==
    last.op \in {"purge", "purge_entities"} /\ last.outcome = "SUCCESS"

\* C3: after every committed purge pass, by cutoff, by filter or by entity,
\* the old_state_id of every surviving State row is null or the identifier
\* of a State row that exists.
C3_NoDanglingOldState ==
    AnyPurgePassed =>
        \A s \in states : s.old_state_id = NoId \/ s.old_state_id \in Ids(states)

\* C3 witness: a filtered pass deleted the row a surviving row pointed at.
C3_Witness ==
    /\ PurgePassed
    /\ last.task.apply_filter
    /\ \E s \in last.before.states :
          /\ s.old_state_id # NoId
          /\ s.old_state_id \notin Ids(states)
          /\ StateKept(s)

\* C4: the current, open recorder run is in the table in every reachable
\* state, whatever the cutoffs of the purge passes so far.
C4_CurrentRunKept ==
    \E r \in runs : r.id = run_id /\ r.end = Open

\* C4 witness: a pass whose cutoff is after the start of the current run has
\* deleted every other run.
C4_Witness ==
    /\ PurgePassed
    /\ last.finished
    /\ Cardinality(last.before.runs) > 1
    /\ \A r \in runs : r.id = run_id /\ r.start < last.task.purge_before

\* Rows the last pass deleted from each table.
DeletedStates == Cardinality(last.before.states) - Cardinality(states)

DeletedEvents == Cardinality(last.before.events) - Cardinality(events)

DeletedRuns == Cardinality(last.before.runs) - Cardinality(runs)

\* C6 as stated: a pass returns finished = true exactly when every batch it
\* deleted was smaller than MAX_ROWS_TO_PURGE.
C6_FinishedIffNoFullBatch ==
    PurgePassed =>
        (last.finished <=> /\ DeletedStates < MAX_ROWS_TO_PURGE
                           /\ DeletedEvents < MAX_ROWS_TO_PURGE
                           /\ DeletedRuns < MAX_ROWS_TO_PURGE)

\* C6 amended: a pass that deletes a State or Event row returns
\* finished = false, however small its batches; a pass that finds no State or
\* Event row to delete and whose batch of runs is not full returns
\* finished = true.
C6_FinishedIffNothingDeleted ==
    PurgePassed =>
        /\ (DeletedStates > 0 \/ DeletedEvents > 0) => ~last.finished
        /\ (DeletedStates = 0 /\ DeletedEvents = 0
               /\ DeletedRuns < MAX_ROWS_TO_PURGE) => last.finished

\* C6 witness: a pass deleted rows, fewer than the cap in every table, and
\* returned finished = false.
C6_Witness ==
    /\ PurgePassed
    /\ ~last.finished
    /\ DeletedStates > 0
    /\ DeletedStates < MAX_ROWS_TO_PURGE
    /\ DeletedEvents < MAX_ROWS_TO_PURGE
    /\ DeletedRuns < MAX_ROWS_TO_PURGE

\* The last operation of the worker was a successful pass of purge_entities.
EntitiesPassed == last.op = "purge_entities" /\ last.outcome = "SUCCESS"

NoSelector(task) ==
    task.entity_ids = {} /\ task.domains = {} /\ task.entity_globs = {}

\* The entities a purge_entities call is expected to purge: sensor.excluded by
\* its entity id, purge_domain.entity by its domain, binary_sensor.purge_glob
\* by the glob, and every entity when the call has no selector.
Eligible(task, entity_id) ==
    \/ NoSelector(task)
    \/ entity_id = SensorExcluded /\ SensorExcluded \in task.entity_ids
    \/ entity_id = PurgeDomainEntity /\ <<"d">> \in task.domains
    \/ entity_id = BinarySensorPurgeGlob /\ <<"*", "g">> \in task.entity_globs

\* C7: a pass of purge_entities with a selector deletes no State row of an
\* entity outside the union of the selectors, and when it finishes no State
\* row of an entity inside the union is left.
C7_PurgeEntitiesExact ==
    (EntitiesPassed /\ ~NoSelector(last.task)) =>
        /\ \A s \in last.before.states :
              ~Eligible(last.task, s.entity_id) => StateKept(s)
        /\ last.finished =>
              \A s \in states : ~Eligible(last.task, s.entity_id)

\* C7 witness: a call with the glob alone has finished after a pass that
\* deleted rows, and rows of other entities are left.
C7_Witness ==
    /\ EntitiesPassed
    /\ last.finished
    /\ last.task.entity_ids = {}
    /\ last.task.domains = {}
    /\ last.task.entity_globs # {}
    /\ last.prev.op = "purge_entities"
    /\ last.prev.task = last.task
    /\ ~last.prev.finished
    /\ states # {}

\* C8: when purge_entities called with no selector finishes, no State row and
\* no state_changed Event row is left.
C8_NoSelectorPurgesAll ==
    (EntitiesPassed /\ NoSelector(last.task) /\ last.finished) =>
        /\ states = {}
        /\ ~\E e \in events : e.type = EVENT_STATE_CHANGED

\* C8 witness: the call with no selector has finished after passes that
\* deleted more than a batch of rows of several entities.
C8_Witness ==
    /\ EntitiesPassed
    /\ NoSelector(last.task)
    /\ last.finished
    /\ last.prev.op = "purge_entities"
    /\ last.prev.task = last.task
    /\ ~last.prev.finished
    /\ StatesDeleted > MAX_ROWS_TO_PURGE

Queued(task) == \E i \in 1..Len(queue) : queue[i] = task

\* C9: a purge_entities task on the queue leads to a state in which no State
\* row of an eligible entity is left.
C9_EntitiesEventuallyPurged ==
    \A i \in EntityIdSelectors, d \in DomainSelectors, g \in GlobSelectors :
        Queued(PurgeEntitiesTask(i, d, g)) ~>
            (\A s \in states : ~Eligible(PurgeEntitiesTask(i, d, g), s.entity_id))

\* C9 witness: a pass of purge_entities found more eligible rows than a batch
\* holds and deleted rows as new as the clock.
C9_Witness ==
    /\ EntitiesPassed
    /\ ~last.finished
    /\ Cardinality({s \in last.before.states :
                       Eligible(last.task, s.entity_id)}) > MAX_ROWS_TO_PURGE
    /\ \E s \in last.before.states : s.ts = now /\ s.id \notin Ids(states)

\* C10: when an attempt at a PurgeTask on mysql raises an operational error
\* with a retryable code, the step sleeps once, logs "retrying" and not
\* "Error executing purge", leaves the tables as they were, and puts the very
\* same PurgeTask (cutoff, repack, apply_filter) once at the back of the queue.
C10_RetryableErrorRetried ==
    [][(/\ dialect = "mysql"
        /\ errors' = errors + 1
        /\ \E c \in RETRYABLE_MYSQL_ERRORS : last'.error = OperationalError(c))
       => /\ queue # <<>>
          /\ Head(queue).kind = "purge"
          /\ last'.task = Head(queue)
          /\ sleeps' = sleeps + 1
          /\ "retrying" \in log'
          /\ log' \ log \subseteq {"retrying"}
          /\ queue' = Append(Tail(queue), Head(queue))
          /\ states' = states
          /\ events' = events
          /\ runs' = runs]_vars

\* C10 witness: on mysql a PurgeTask failed with code 1205, was retried after
\* one sleep, and the retried attempt committed and deleted rows.
C10_Witness ==
    /\ dialect = "mysql"
    /\ PurgePassed
    /\ last.prev.op = "purge"
    /\ last.prev.outcome = "RETRYABLE_FAILURE"
    /\ last.prev.task = last.task
    /\ sleeps = 1
    /\ "retrying" \in log
    /\ "Error executing purge" \notin log
    /\ Cardinality(states) < Cardinality(last.before.states)

\* The step is a purge attempt that raised an operational error the active
\* backend is not known to recover from.
FatalErrorStep ==
    /\ errors' = errors + 1
    /\ last'.error.kind = "operational"
    /\ ~(dialect = "mysql" /\ last'.error.code \in RETRYABLE_MYSQL_ERRORS)

\* C11: an attempt that raises an operational error with no known transient
\* code logs "Error executing purge" and not "retrying", does not sleep, and
\* drops its task from the queue without putting it again.
C11_FatalErrorNotRetried ==
    [][FatalErrorStep =>
          /\ queue # <<>>
          /\ last'.task = Head(queue)
          /\ "Error executing purge" \in log'
          /\ log' \ log \subseteq {"Error executing purge"}
          /\ sleeps' = sleeps
          /\ queue' = Tail(queue)]_vars

\* C11 witness: on sqlite an attempt with rows to delete failed with code
\* 1205; the error is logged, nothing was retried, the task is gone.
C11_Witness ==
    /\ dialect = "sqlite"
    /\ last.op = "purge"
    /\ last.outcome = "FATAL_FAILURE"
    /\ last.error = OperationalError(1205)
    /\ "Error executing purge" \in log
    /\ "retrying" \notin log
    /\ sleeps = 0
    /\ ~Queued(last.task)
    /\ StateCandidates(last.task.purge_before, last.task.apply_filter) # {}

\* C12: an attempt that ends in FATAL_FAILURE leaves every row of the states,
\* events and recorder runs tables, old_state_id included, as it was.
C12_FatalFailureRollsBack ==
    [][FatalErrorStep =>
          /\ states' = states
          /\ events' = events
          /\ runs' = runs
          /\ run_id' = run_id]_vars

\* C12 witness: the failed attempt had expired states to delete, and they are
\* all still in the table with the tables as they were before the attempt.
C12_Witness ==
    /\ last.op = "purge"
    /\ last.outcome = "FATAL_FAILURE"
    /\ Snapshot = last.before
    /\ Cardinality(StateCandidates(last.task.purge_before,
                                   last.task.apply_filter)) >= MAX_ROWS_TO_PURGE
    /\ \E s \in states : s.old_state_id # NoId

\* C13: an attempt that raises a database corruption error is not retried:
\* the step moves the broken file away, leaves a fresh store with no State
\* and no Event row and one open current run, drops the task, and neither
\* sleeps nor logs a retry.
C13_CorruptionResetsStore ==
    [][(errors' = errors + 1 /\ last'.error = DatabaseCorruption) =>
          /\ moved_away'
          /\ states' = {}
          /\ events' = {}
          /\ \E r \in runs' : runs' = {r} /\ r.id = run_id' /\ r.end = Open
          /\ queue # <<>>
          /\ queue' = Tail(queue)
          /\ sleeps' = sleeps
          /\ log' = log]_vars

\* C13 witness: the attempt found the database malformed while the table held
\* states, the store was reset, and the worker went on to record a new state.
C13_Witness ==
    /\ moved_away
    /\ last.op = "write"
    /\ Cardinality(states) = 1
    /\ next_id.states = 2
    /\ fired > 1
    /\ "retrying" \notin log

\* C14: the vacuum runs in a purge attempt exactly when the attempt committed,
\* returned finished = true and its task had repack = true; the vacuum message
\* enters the log in such a step only, never in a pass with repack = false or
\* finished = false, and never in an attempt that raised an error.
C14_VacuumOnlyWhenFinished ==
    /\ [](last.op = "purge" =>
            (last.repacked <=>
                (last.outcome = "SUCCESS" /\ last.finished /\ last.task.repack)))
    /\ [][(VACUUM_MESSAGE \in log' /\ VACUUM_MESSAGE \notin log) =>
             /\ last'.op = "purge"
             /\ last'.task = Head(queue)
             /\ last'.outcome = "SUCCESS"
             /\ last'.finished
             /\ last'.task.repack]_vars
    /\ [](last.op = "purge" /\ last.repacked => VACUUM_MESSAGE \in log)

\* C14 witness: a task with repack = true needed a second pass; the first pass
\* did not vacuum, the finishing pass did.
C14_Witness ==
    /\ PurgePassed
    /\ last.task.repack
    /\ last.finished
    /\ last.repacked
    /\ VACUUM_MESSAGE \in log
    /\ last.prev.op = "purge"
    /\ last.prev.task = last.task
    /\ last.prev.outcome = "SUCCESS"
    /\ ~last.prev.finished
    /\ calls = 1

\* The last operation of the worker was a purge attempt that raised a
\* transient or a fatal operational error.
AttemptFailed ==
    /\ last.op \in {"purge", "purge_entities"}
    /\ last.outcome \in {"RETRYABLE_FAILURE", "FATAL_FAILURE"}

\* C15: a call of the purge or purge_entities service only puts its task on
\* the queue and executes nothing of it, so no error of the attempt reaches
\* the caller; and after an attempt that raised a transient or fatal error the
\* worker goes on until every item on the queue has been taken.
C15_ErrorsStayInWorker ==
    /\ [][calls' = calls + 1 =>
             /\ \E task \in {queue'[Len(queue')]} :
                   /\ IsPurgeWork(task)
                   /\ queue' = Append(queue, task)
             /\ UNCHANGED <<states, events, runs, run_id, old_states, log,
                            sleeps, errors, moved_away, last>>]_vars
    /\ (AttemptFailed ~> (queue = <<>>))

\* C15 witness: an attempt failed while another service call's task was
\* waiting behind it, and the worker has then taken that task and emptied the
\* queue.
C15_Witness ==
    /\ errors = 1
    /\ calls = 2
    /\ queue = <<>>
    /\ AnyPurgePassed
    /\ last.prev.op \in {"purge", "purge_entities"}
    /\ last.prev.outcome \in {"RETRYABLE_FAILURE", "FATAL_FAILURE"}
    /\ last.prev.task # last.task

PurgedRuns == last.before.runs \ runs

\* The runs the last pass found started before its cutoff, the current run
\* aside.
StartedBefore ==
    {r \in last.before.runs : r.id # run_id /\ r.start < last.task.purge_before}

\* C17 as stated: a pass deletes no run, other than the current one, whose
\* end is later than the cutoff, and a finished purge leaves no run, other
\* than the current one, whose end is <= cutoff.
C17_RunsByEnd ==
    PurgePassed =>
        /\ \A r \in PurgedRuns :
              r.id # run_id /\ r.end # Open /\ r.end <= last.task.purge_before
        /\ last.finished =>
              ~\E r \in runs : /\ r.id # run_id
                               /\ r.end # Open
                               /\ r.end <= last.task.purge_before

\* C17 amended: a pass deletes only runs, other than the current one, whose
\* start is before the cutoff, whenever they end; a pass that finds no State
\* or Event row to delete deletes a batch of them, all of them up to the cap;
\* and a finished purge leaves none of them.
C17_RunsByStart ==
    PurgePassed =>
        /\ PurgedRuns \subseteq StartedBefore
        /\ (DeletedStates = 0 /\ DeletedEvents = 0) =>
              DeletedRuns = Min(MAX_ROWS_TO_PURGE, Cardinality(StartedBefore))
        /\ last.finished =>
              ~\E r \in runs : r.id # run_id /\ r.start < last.task.purge_before

\* C17 witness: a pass deleted a run that started before the cutoff and ends
\* after it, and kept a run that started at the cutoff.
C17_Witness ==
    /\ PurgePassed
    /\ \E r \in PurgedRuns : r.end > last.task.purge_before
    /\ \E r \in runs : r.id # run_id /\ r.start >= last.task.purge_before

\* The last pass was a committed pass of a purge without, or with, apply_filter.
PlainPassed == PurgePassed /\ ~last.task.apply_filter

FilterPassed == PurgePassed /\ last.task.apply_filter

\* The rows the last pass found with a timestamp at or after its cutoff.
NewStates == {s \in last.before.states : s.ts >= last.task.purge_before}

NewEvents == {e \in last.before.events : e.ts >= last.task.purge_before}

\* C18 as stated: after a pass of a purge with apply_filter = false, every
\* State and Event row with timestamp >= cutoff is in its table unchanged.
C18_NewRowsUnchanged ==
    PlainPassed => (NewStates \subseteq states /\ NewEvents \subseteq events)

\* C18 amended: a pass of a purge with apply_filter = false deletes no State
\* or Event row with timestamp >= cutoff, excluded entity or event type or
\* not; every such Event row is unchanged, and every such State row is
\* unchanged but for an old_state_id that pointed at a row the pass deleted,
\* which is now null.
C18_NewRowsKept ==
    PlainPassed =>
        /\ NewEvents \subseteq events
        /\ \A s \in NewStates :
              \E r \in states :
                 /\ SameState(s, r)
                 /\ \/ r.old_state_id = s.old_state_id
                    \/ /\ r.old_state_id = NoId
                       /\ s.old_state_id \in Ids(last.before.states) \ Ids(states)

\* C18 witness: a pass without filter deleted the expired state of the
\* excluded entity and kept its newer state, whose old_state_id it set to
\* null, next to an event of the excluded type as new as the cutoff.
C18_Witness ==
    /\ PlainPassed
    /\ \E s \in NewStates : /\ s.entity_id = SensorExcluded
                            /\ s.old_state_id # NoId
                            /\ s \notin states
                            /\ StateKept(s)
    /\ \E e \in NewEvents : e.type = EVENT_PURGE /\ e \in events

\* The state_changed events of the states the last pass deleted.
EventsOfPurgedStates ==
    {e \in last.before.events :
        /\ e.type = EVENT_STATE_CHANGED
        /\ \E s \in last.before.states : s.event_id = e.id /\ ~StateKept(s)}

\* C19: a pass of a purge with apply_filter = true deletes the state_changed
\* events of the states it deletes, keeps every state of sensor.keep with
\* timestamp >= cutoff and every event of a type that is not excluded with
\* timestamp >= cutoff that is not such a state_changed event; and when the
\* purge has finished, no state of sensor.excluded is left, old or new, with
\* or without an event.
C19_FilteredStatesPurged ==
    FilterPassed =>
        /\ EventsOfPurgedStates \cap events = {}
        /\ \A s \in NewStates : s.entity_id = SensorKeep => StateKept(s)
        /\ \A e \in NewEvents \ EventsOfPurgedStates :
              e.type \in {EVENT_STATE_CHANGED, EVENT_TEST} => e \in events
        /\ last.finished => ~\E s \in states : s.entity_id = SensorExcluded

\* C19 witness: a pass with filter deleted a state of sensor.excluded as new
\* as the cutoff that has no event, and one that has an event, and kept a
\* state of sensor.keep.
C19_Witness ==
    /\ FilterPassed
    /\ \E s \in NewStates : /\ s.entity_id = SensorExcluded
                            /\ s.event_id = NoId
                            /\ ~StateKept(s)
    /\ \E s \in NewStates : /\ s.entity_id = SensorExcluded
                            /\ s.event_id # NoId
                            /\ ~StateKept(s)
    /\ \E s \in NewStates : s.entity_id = SensorKeep /\ StateKept(s)

\* C20: a pass of a purge with apply_filter = true keeps every event of a type
\* that is not excluded with timestamp >= cutoff, and the states of
\* sensor.keep linked to such events; and when the purge has finished, no
\* event of the excluded type is left, old or new.
C20_FilteredEventsPurged ==
    FilterPassed =>
        /\ \A e \in NewEvents : e.type = EVENT_TEST => e \in events
        /\ \A s \in NewStates :
              s.entity_id = SensorKeep =>
                 /\ StateKept(s)
                 /\ \A e \in last.before.events : e.id = s.event_id => e \in events
        /\ last.finished => ~\E e \in events : e.type = EVENT_PURGE

\* C20 witness: a pass with filter deleted an event of the excluded type as
\* new as the cutoff and kept a state of sensor.keep with its event.
C20_Witness ==
    /\ FilterPassed
    /\ \E e \in NewEvents : e.type = EVENT_PURGE /\ e \notin events
    /\ \E s \in NewStates :
          /\ s.entity_id = SensorKeep
          /\ StateKept(s)
          /\ \E e \in events : e.id = s.event_id

\* The last pass was the first pass of a purge that keeps four days, run now
\* on states written eleven days ago, five days ago and now.
ScenarioFirstPass ==
    /\ PurgePassed
    /\ last.task.purge_before = UtcNow - KeepFourDays
    /\ last.prev.op = "write"
    /\ \A t \in {ElevenDaysAgo, FiveDaysAgo, UtcNow} :
          \E s \in last.before.states : s.ts = t

\* The last pass followed an unfinished pass of the same purge that keeps
\* four days.
ScenarioSecondPass ==
    /\ PurgePassed
    /\ last.task.purge_before = UtcNow - KeepFourDays
    /\ last.prev.op = "purge"
    /\ last.prev.task = last.task
    /\ ~last.prev.finished

\* C21 as stated: the first pass of purge(now - 4d) deletes the rows written
\* eleven days ago and leaves the rows written five days ago and now.
C21_ScenarioKeepsFiveDays ==
    ScenarioFirstPass =>
        \A s \in last.before.states :
            StateKept(s) <=> s.ts \in {FiveDaysAgo, UtcNow}

\* C21 amended: the first pass of purge(now - 4d) deletes the states and
\* events written eleven and five days ago, leaves those written now and
\* returns finished = false; the pass after it deletes nothing and returns
\* finished = true; and a finished purge(now) leaves only rows written at the
\* instant of its cutoff.
C21_ScenarioKeepsToday ==
    /\ ScenarioFirstPass =>
          /\ \A s \in last.before.states : StateKept(s) <=> s.ts = UtcNow
          /\ \A e \in last.before.events : e \in events <=> e.ts = UtcNow
          /\ ~last.finished
    /\ ScenarioSecondPass =>
          /\ last.finished
          /\ DeletedStates = 0
          /\ DeletedEvents = 0
    /\ (PurgePassed /\ last.finished /\ last.task.purge_before >= UtcNow) =>
          /\ \A s \in states : s.ts = last.task.purge_before
          /\ \A e \in events : e.ts = last.task.purge_before

\* C21 witness: the first pass of purge(now - 4d) has deleted the state
\* written eleven days ago and the state written five days ago, and the
\* state written now is left.
C21_Witness ==
    /\ ScenarioFirstPass
    /\ ~last.finished
    /\ DeletedStates = MAX_ROWS_TO_PURGE
    /\ DeletedEvents = MAX_ROWS_TO_PURGE
    /\ states # {}
    /\ \A s \in states : s.ts = UtcNow

\* C22: a call of the purge service puts a PurgeTask whose cutoff is the time
\* of the call minus keep_days, or minus the configured retention when the
\* call gives no keep_days; every pass of the task keeps the rows at or after
\* that cutoff, and when the task has finished no row older than the cutoff
\* is left, were it older by the smallest step of the clock.
C22_CutoffFromKeepDays ==
    /\ [][(calls' = calls + 1 /\ queue'[Len(queue')].kind = "purge") =>
             queue'[Len(queue')].purge_before \in
                IF now = UtcNow
                THEN {now - KeepFourDays, now - DEFAULT_KEEP_DAYS}
                ELSE {now}]_vars
    /\ [](PurgePassed => \A s \in NewStates : StateKept(s))
    /\ []((PurgePassed /\ last.finished) =>
             ~\E s \in states : s.ts < last.task.purge_before)

\* C22 witness: a call without keep_days was made now; its first pass has
\* deleted the state written eleven days ago, one step before the cutoff,
\* and kept the state written five days ago.
C22_Witness ==
    /\ PurgePassed
    /\ last.task.purge_before = UtcNow - DEFAULT_KEEP_DAYS
    /\ \E s \in last.before.states :
          s.ts + 1 = last.task.purge_before /\ ~StateKept(s)
    /\ \E s \in states : s.ts = FiveDaysAgo

\* The task a service call has put at the back of the queue.
Put == queue'[Len(queue')]

\* C23: a call of purge or purge_entities either puts one task made of valid
\* input on the queue or, when its input is invalid, puts nothing; in both
\* cases the call leaves every table as it was.
C23_InvalidCallRejected ==
    [][calls' = calls + 1 =>
          /\ UNCHANGED <<states, events, runs, run_id, old_states, log, last>>
          /\ \/ queue' = queue
             \/ /\ queue' = Append(queue, Put)
                /\ Put.kind = "purge" => Put.purge_before <= now
                /\ Put.kind = "purge_entities" =>
                      \A e \in Put.entity_ids : e \in Entities]_vars

\* C23 witness: the rows were written, then one call was made, and nothing
\* was put on the queue nor taken by the worker: the call was rejected.
C23_Witness ==
    /\ calls = 1
    /\ queue = <<>>
    /\ last.op = "write"
    /\ Cardinality(states) > 1

\* A step of the worker: it changes a table or the record of its last
\* operation.
WorkerStep ==
    \/ last' # last
    \/ states' # states
    \/ events' # events
    \/ runs' # runs

PurgedStates == {s \in last.before.states : ~StateKept(s)}

\* C25: after a purge attempt the tables hold all of its batch or nothing of
\* it: a committed pass has deleted the states of its batch together with
\* their state_changed events and has nulled every old_state_id that pointed
\* at them, and no state_changed event of a state that is left; an attempt
\* that raised a transient or fatal error has left the tables as they were.
C25_BatchAtomic ==
    (last.op \in {"purge", "purge_entities"}) =>
        /\ last.outcome = "SUCCESS" =>
              /\ \A s \in PurgedStates :
                    /\ ~\E e \in events : e.id = s.event_id
                    /\ ~\E r \in states : r.old_state_id = s.id
              /\ \A e \in last.before.events \ events :
                    e.type = EVENT_STATE_CHANGED =>
                       \E s \in PurgedStates : s.event_id = e.id
        /\ last.outcome \in {"RETRYABLE_FAILURE", "FATAL_FAILURE"} =>
              Snapshot = last.before

\* C25 witness: an attempt raised a transient error after it had issued the
\* deletion of expired states that other states point at; all of them are
\* still in the table.
C25_Witness ==
    /\ last.op = "purge"
    /\ last.outcome = "RETRYABLE_FAILURE"
    /\ Snapshot = last.before
    /\ \E s \in StateCandidates(last.task.purge_before, last.task.apply_filter) :
          \E r \in states : r.old_state_id = s.id

\* The rows the last pass found older than its cutoff.
FoundStates ==
    {s \in last.before.states : Expired(s.ts, last.task.purge_before)}

FoundEvents ==
    {e \in last.before.events : Expired(e.ts, last.task.purge_before)}

PurgedEvents == last.before.events \ events

\* C26: a pass of purge without filter that deleted a State or Event row
\* returned finished = false, whatever the size of its batches and whether or
\* not a candidate is left; a pass that returned finished = true had found no
\* State and no Event row older than its cutoff.
C26_FinishedOnlyWhenNothingFound ==
    PlainPassed =>
        /\ (PurgedStates # {} \/ PurgedEvents # {}) => ~last.finished
        /\ last.finished => (FoundStates = {} /\ FoundEvents = {})

\* C26 witness: a pass deleted one state and one event, fewer than the cap,
\* no row older than its cutoff is left, and it returned finished = false.
C26_Witness ==
    /\ PlainPassed
    /\ ~last.finished
    /\ Cardinality(PurgedStates) = 1
    /\ Cardinality(PurgedEvents) = 1
    /\ 1 < MAX_ROWS_TO_PURGE
    /\ StateCandidates(last.task.purge_before, FALSE) = {}
    /\ EventCandidates(last.task.purge_before, FALSE) = {}

\* The runs, the current one aside, that started before the cutoff of the
\* last pass and are still in the table.
RunsLeft ==
    {r \in runs : r.id # run_id /\ r.start < last.task.purge_before}

C28_OneTaskPurgesAll ==
    /\ \A c \in 0..MaxTime, r \in BOOLEAN :
          (/\ Queued(PurgeTask(c, r, FALSE))
           /\ Cardinality(StateCandidates(c, FALSE)) > MAX_ROWS_TO_PURGE)
          ~> (/\ StateCandidates(c, FALSE) = {}
              /\ ~\E e \in events : Expired(e.ts, c)
              /\ queue = <<>>)
    /\ [][(last' # last /\ last'.op = "purge") =>
             /\ calls' = calls
             /\ queue' = IF last'.finished THEN Tail(queue)
                         ELSE Append(Tail(queue), Head(queue))]_vars

\* C28 witness: after one call, the task found more states older than its
\* cutoff than a batch holds, ran again without a further call, and finished
\* with none of them left.
C28_Witness ==
    /\ PurgePassed
    /\ calls = 1
    /\ last.finished
    /\ last.prev.op = "purge"
    /\ ~last.prev.finished
    /\ last.prev.task = last.task
    /\ StatesDeleted > MAX_ROWS_TO_PURGE
    /\ StateCandidates(last.task.purge_before, FALSE) = {}
    /\ queue = <<>>

\* The State row was one the task of the last pass asks to delete.
WasCandidate(s) ==
    IF last.op = "purge"
    THEN \/ Expired(s.ts, last.task.purge_before)
         \/ last.task.apply_filter /\ ~EntityFilter(s.entity_id)
    ELSE SelectorMatch(last.task.entity_ids, last.task.domains,
                       last.task.entity_globs, s.entity_id)

\* C29: after every committed pass, a State row the pass kept has a null
\* old_state_id if it pointed at a row the pass deleted and its old_state_id
\* as before otherwise; and every row the pass deleted is one its task asks to
\* delete, so that no row is deleted for pointing at a deleted row.
C29_RepairOnlyNullsPointers ==
    AnyPurgePassed =>
        \A s \in last.before.states :
           IF StateKept(s)
           THEN \E r \in states :
                   /\ SameState(s, r)
                   /\ r.old_state_id =
                         IF s.old_state_id \in Ids(PurgedStates) THEN NoId
                         ELSE s.old_state_id
           ELSE WasCandidate(s)

\* C29 witness: a pass deleted a state and kept two others: one that pointed
\* at the deleted state and now has a null old_state_id, one that points at a
\* state that is left and has the old_state_id it had.
C29_Witness ==
    /\ AnyPurgePassed
    /\ \E s \in last.before.states :
          /\ s.old_state_id \in Ids(PurgedStates)
          /\ ~WasCandidate(s)
          /\ \E r \in states : SameState(s, r) /\ r.old_state_id = NoId
    /\ \E s \in states :
          /\ s \in last.before.states
          /\ s.old_state_id # NoId
          /\ s.old_state_id \in Ids(states)

\* C30: with state_changed among the excluded event types, no pass of a purge
\* with apply_filter deletes a State row that has no linked event and is not
\* older than the cutoff, and once a pass returns finished = true no
\* state_changed Event row and no State row linked to an event is left, the
\* states of an entity that passes the entity filter included.
C30_StateChangedExcluded ==
    (FilterPassed /\ EVENT_STATE_CHANGED \in exclude_t) =>
        /\ \A s \in last.before.states :
              (s.event_id = NoId /\ ~Expired(s.ts, last.task.purge_before))
                 => StateKept(s)
        /\ last.finished =>
              /\ ~\E e \in events : e.type = EVENT_STATE_CHANGED
              /\ \A s \in states : s.event_id = NoId

\* C30 witness: a purge whose cutoff no row is older than has finished; it
\* deleted states of sensor.keep, which passes the entity filter, with their
\* state_changed events, and a state that has no linked event is left.
C30_Witness ==
    /\ FilterPassed
    /\ EVENT_STATE_CHANGED \in exclude_t
    /\ last.finished
    /\ last.task.purge_before = 0
    /\ EntityFilter(SensorKeep)
    /\ StatesDeleted > 0
    /\ events = {}
    /\ \E s \in states : s.event_id = NoId /\ s.entity_id = SensorKeep

\* A committed purge pass, by cutoff, by filter or by entity, as a step.
PurgePassStep ==
    /\ last' # last
    /\ last'.op \in {"purge", "purge_entities"}
    /\ last'.outcome = "SUCCESS"

\* C31: in every state the record of the previous state of each entity is
\* empty or names a State row of that entity that is in the table; a purge
\* pass empties the record of an entity exactly when it deleted the row the
\* record named and leaves it as it was otherwise; and the State row a write
\* adds has a null old_state_id or that of a row that is in the table.
C31_OldStatesFollowPurge ==
    /\ [](\A e \in Entities :
             old_states[e] # NoId =>
                \E s \in states : s.id = old_states[e] /\ s.entity_id = e)
    /\ [][PurgePassStep =>
             \A e \in Entities :
                old_states'[e] =
                   IF old_states[e] # NoId /\ old_states[e] \notin Ids(states')
                   THEN NoId ELSE old_states[e]]_vars
    /\ [][\A s \in states' \ states :
             s.id \notin Ids(states) =>
                (s.old_state_id = NoId \/ s.old_state_id \in Ids(states))]_vars

\* C31 witness: every State row was purged, the entity is out of the record,
\* and the State written after that is the only row, with a null old_state_id.
C31_Witness ==
    /\ last = Written
    /\ Cardinality(states) = 1
    /\ \E s \in states : /\ s.id > 1
                         /\ s.old_state_id = NoId
                         /\ old_states[s.entity_id] = s.id
    /\ StatesDeleted = next_id.states - 2

\* C32: after every committed pass of purge_entities, the state_changed event
\* of each State row the pass deleted is gone, the event of each State row it
\* kept is in the table as it was, and a kept row that pointed at a deleted
\* row has a null old_state_id.
C32_EntitiesEventsAndLinks ==
    EntitiesPassed =>
        \A s \in last.before.states :
           IF StateKept(s)
           THEN /\ \A e \in last.before.events : e.id = s.event_id => e \in events
                /\ s.old_state_id \in Ids(PurgedStates) =>
                      \E r \in states : SameState(s, r) /\ r.old_state_id = NoId
           ELSE ~\E e \in events : e.id = s.event_id

\* C32 witness: a pass of purge_entities deleted states with their events,
\* kept a state of the purged entity that pointed at one of them, now with a
\* null old_state_id, and kept a state of another entity with its event.
C32_Witness ==
    /\ EntitiesPassed
    /\ \E s \in PurgedStates :
          /\ \E e \in last.before.events : e.id = s.event_id
          /\ \E r \in states : /\ r.entity_id = s.entity_id
                               /\ r.old_state_id = NoId
                               /\ \E b \in last.before.states :
                                     SameState(b, r) /\ b.old_state_id = s.id
    /\ \E s \in states :
          /\ ~Eligible(last.task, s.entity_id)
          /\ \E e \in events : e.id = s.event_id

\* C34: after every committed purge pass, a State row the pass found linked
\* to an Event row is in the table exactly when that Event row is; and in
\* every state the event_id of a State row is null or that of an Event row
\* that is in the table.
C34_StateAndEventTogether ==
    /\ \A s \in states :
          s.event_id = NoId \/ \E e \in events : e.id = s.event_id
    /\ AnyPurgePassed =>
          \A s \in last.before.states, e \in last.before.events :
             e.id = s.event_id => (StateKept(s) <=> e \in events)

\* C34 witness: a pass deleted a state that is not older than the cutoff
\* together with its excluded state_changed event, and left another state
\* with its event.
C34_Witness ==
    /\ FilterPassed
    /\ \E s \in PurgedStates :
          /\ ~Expired(s.ts, last.task.purge_before)
          /\ \E e \in PurgedEvents : e.id = s.event_id
    /\ \E s \in states, e \in events :
          e.id = s.event_id /\ s \in last.before.states

\* C35: in every state reachable by writes and purge passes, two different
\* State rows never hold the same non-null old_state_id.
C35_OnePointerPerPredecessor ==
    \A s \in states, r \in states :
       (s.id # r.id /\ s.old_state_id # NoId) => s.old_state_id # r.old_state_id

\* C35 witness: a pass deleted the predecessor of a row, whose old_state_id
\* is now null, and left two rows that point at two different rows.
C35_Witness ==
    /\ AnyPurgePassed
    /\ \E b \in last.before.states :
          /\ b.old_state_id \in Ids(PurgedStates)
          /\ StateKept(b)
    /\ \E s \in states, r \in states :
          /\ s.id # r.id
          /\ s.old_state_id # NoId
          /\ r.old_state_id # NoId

\* The rows of the three tables.
RowCount == Cardinality(states) + Cardinality(events) + Cardinality(runs)

\* C36: a pass that returned finished = false deleted at least one row; no
\* pass makes the three tables hold more rows than before it; and, the
\* writes having been made before the call, a PurgeTask on the queue leads to
\* a pass of that task that returns finished = true.
C36_ProgressAndTermination ==
    /\ []((PurgePassed /\ ~last.finished) =>
             DeletedStates + DeletedEvents + DeletedRuns >= 1)
    /\ [][(last' # last /\ last'.op = "purge") => RowCount' <= RowCount]_vars
    /\ \A c \in 0..MaxTime :
          Queued(PurgeTask(c, FALSE, FALSE)) ~>
             (/\ PurgePassed
              /\ last.finished
              /\ last.task = PurgeTask(c, FALSE, FALSE)
              /\ ~Queued(PurgeTask(c, FALSE, FALSE)))

\* C36 witness: a task finished on its third pass at least; the passes
\* before deleted states, events and runs.
C36_Witness ==
    /\ PurgePassed
    /\ last.finished
    /\ last.prev.op = "purge"
    /\ last.prev.outcome = "SUCCESS"
    /\ ~last.prev.finished
    /\ last.prev.task = last.task
    /\ StatesDeleted > MAX_ROWS_TO_PURGE
    /\ Cardinality(runs) < next_id.runs - 1
    /\ queue = <<>>

\* The operational error is one the active backend is known to recover from.
KnownTransient(error) ==
    dialect = "mysql" /\ error.code \in RETRYABLE_MYSQL_ERRORS

\* C37: an attempt that raised an operational error ended in
\* RETRYABLE_FAILURE if the backend is mysql and the code is one of its
\* retryable codes, and in FATAL_FAILURE otherwise, on sqlite whatever the
\* code; the step of the former sleeps once and puts the task again, the step
\* of the latter does not sleep and drops the task.
C37_ClassifiedByBackend ==
    /\ []((last.op \in {"purge", "purge_entities"}
             /\ last.error.kind = "operational") =>
            last.outcome = IF KnownTransient(last.error)
                           THEN "RETRYABLE_FAILURE" ELSE "FATAL_FAILURE")
    /\ [][(errors' = errors + 1 /\ last'.error.kind = "operational") =>
             /\ queue # <<>>
             /\ sleeps' = IF KnownTransient(last'.error) THEN sleeps + 1
                          ELSE sleeps
             /\ queue' = IF KnownTransient(last'.error)
                         THEN Append(Tail(queue), Head(queue))
                         ELSE Tail(queue)]_vars

\* C37 witness: on mysql an attempt raised an operational error whose code is
\* not a retryable one; it ended in FATAL_FAILURE, without sleep or retry.
C37_Witness ==
    /\ dialect = "mysql"
    /\ last.op = "purge"
    /\ last.error = OperationalError(1)
    /\ last.outcome = "FATAL_FAILURE"
    /\ sleeps = 0
    /\ "retrying" \notin log
    /\ queue = <<>>

\* C38: a purge pass adds no row to any table; every Event row and every
\* recorder run it leaves is a row that was there, unchanged; every State row
\* it leaves is a row that was there with the same identifier, entity,
\* timestamp and event_id, and with the old_state_id it had or null.
C38_OnlyRemovalAndNulling ==
    [][(last' # last /\ last'.op = "purge") =>
          /\ events' \subseteq events
          /\ runs' \subseteq runs
          /\ run_id' = run_id
          /\ \A r \in states' :
                \E s \in states :
                   /\ SameState(s, r)
                   /\ r.old_state_id \in {s.old_state_id, NoId}]_vars

\* C38 witness: a pass deleted a state and its event; a state it kept has
\* lost its pointer and nothing else, and an event and a closed run that
\* were there before are still there.
C38_Witness ==
    /\ PurgePassed
    /\ PurgedEvents # {}
    /\ \E b \in last.before.states :
          /\ b.old_state_id \in Ids(PurgedStates)
          /\ \E r \in states : SameState(b, r) /\ r.old_state_id = NoId
    /\ \E e \in events : e \in last.before.events
    /\ \E r \in runs : r.id # run_id /\ r \in last.before.runs

\* The registered listener of motion_blinds is removed in this step.
ListenerRemoved ==
    /\ KEY_MULTICAST_LISTENER \in DOMAIN motion.data
    /\ KEY_MULTICAST_LISTENER \notin DOMAIN motion'.data

\* async_unload_entry of the entry returns in this step.
UnloadReturns(e) == motion.pc[e] = "unloading" /\ motion'.pc[e] # "unloading"

\* The keys of hass.data[DOMAIN] once the unload has popped its entry, if it
\* does.
KeysAfterUnload ==
    DOMAIN motion.data \cap (DOMAIN motion'.data \cup {KEY_MULTICAST_LISTENER})

\* C39: a listener object is made only by a set-up that finds no listener key
\* in hass.data[DOMAIN], which registers it, and no listener is started more
\* than once; the registered listener is removed only when an unload
\* returns, exactly when the listener key is the only key left once the
\* unload has popped its entry, and it is then stopped, and no listener is
\* stopped otherwise; an unload that fails leaves hass.data[DOMAIN] and the
\* listeners as they were.
C39_ListenerStartedAndStoppedOnce ==
    /\ [](\A i \in 1..Len(motion.multicast) : motion.multicast[i].starts <= 1)
    /\ [][Len(motion'.multicast) > Len(motion.multicast) =>
             /\ KEY_MULTICAST_LISTENER \notin DOMAIN motion.data
             /\ KEY_MULTICAST_LISTENER \in DOMAIN motion'.data
             /\ motion'.data[KEY_MULTICAST_LISTENER] = Len(motion'.multicast)]_vars
    /\ [][ListenerRemoved => \E e \in EntryIds : UnloadReturns(e)]_vars
    /\ [][\A e \in EntryIds :
             UnloadReturns(e) =>
                /\ ListenerRemoved <=> KeysAfterUnload = {KEY_MULTICAST_LISTENER}
                /\ motion'.multicast =
                      IF ListenerRemoved
                      THEN [motion.multicast EXCEPT
                               ![motion.data[KEY_MULTICAST_LISTENER]].stops = @ + 1]
                      ELSE motion.multicast
                /\ e \in DOMAIN motion'.data =>
                      /\ motion'.pc[e] = "failed_unload"
                      /\ motion'.data = motion.data]_vars
    /\ [][(\A e \in EntryIds : ~UnloadReturns(e)) =>
             \A i \in 1..Len(motion.multicast) :
                motion'.multicast[i].stops = motion.multicast[i].stops]_vars

\* C39 witness: two entries were loaded on one listener, started once; the
\* unload of one failed and left everything in place, the unload of the other
\* left the listener with the entry of the failed unload, and the listener is
\* still registered and was never stopped.
C39_Witness ==
    /\ motion.pc["entry1"] = "failed_unload"
    /\ motion.pc["entry2"] = "not_loaded"
    /\ DOMAIN motion.data = {KEY_MULTICAST_LISTENER, "entry1"}
    /\ Len(motion.multicast) = 1
    /\ motion.multicast[1] = [starts |-> 1, stops |-> 0]
    /\ motion.raised = {}

\* C40: after every update of a coordinator its polling interval is
\* UPDATE_INTERVAL if the gateway and every blind answered available in that
\* update and UPDATE_INTERVAL_FAST otherwise; when the gateway's own update
\* failed, the result holds the gateway alone, marked unavailable, and no
\* blind was polled.
C40_IntervalFollowsAvailability ==
    \A e \in EntryIds :
       LET c == motion.coordinator[e]
       IN c.updated =>
             /\ c.update_interval =
                   IF c.gateway_ok /\ \A b \in DOMAIN c.blind_ok : c.blind_ok[b]
                   THEN UPDATE_INTERVAL
                   ELSE UPDATE_INTERVAL_FAST
             /\ ~c.gateway_ok =>
                   /\ DOMAIN c.data = {KEY_GATEWAY}
                   /\ ~c.data[KEY_GATEWAY].available
                   /\ DOMAIN c.polled = {}
             /\ c.gateway_ok => DOMAIN c.polled = DOMAIN c.blind_ok

\* C40 witness: a coordinator that polled slowly after an update in which
\* all answered has since had an update in which the gateway failed while
\* the device list held a blind that would have answered, and polls fast.
C40_Witness ==
    LET c == motion.coordinator["entry1"]
    IN /\ motion.updates >= 1
       /\ c.updated
       /\ ~c.gateway_ok
       /\ \E b \in DOMAIN c.blind_ok : c.blind_ok[b]
       /\ c.update_interval = UPDATE_INTERVAL_FAST
       /\ DOMAIN c.polled = {}

====
